---- MODULE Spec2Model ----
(***************************************************************************)
(* Session orchestrator (Master) of the game server: the registries, the   *)
(* identity store and the asynchronous message handlers of master.ts.      *)
(* A handler runs synchronously up to each await; the store serves the     *)
(* awaited call in a step of its own and the handler resumes in a later    *)
(* step, so handlers of different messages interleave at their awaits.     *)
(***************************************************************************)
EXTENDS Integers, Sequences, FiniteSets, Bags, TLC

\* ------------------------------------------------------------------ bounds
MaxConn == 3        \* connections accepted in one run (Spec)
MaxConnAuth == 2    \* connections accepted in one run (SpecAuth)
MaxConnReg == 2     \* connections accepted in one run (SpecReg, SpecGate)
MaxConnFields == 1  \* connections accepted in one run (SpecFields)
MaxInFlight == 2    \* handlers suspended at an await at the same time

\* ------------------------------------------------------- program constants
InvalidId == -1     \* p.id = -1
MinNameLen == 4     \* data.name.length < 4
MaxNameLen == 20    \* data.name.length > 20
NoSock == -1        \* a released connection (Player.switchState())

\* --------------------------------------------------------------- JS values
Undef == [ty |-> "undefined", val |-> ""]
Str(s) == [ty |-> "string", val |-> s]
Num(s) == [ty |-> "number", val |-> s]
Null == [ty |-> "null", val |-> ""]

\* !v for the values used here
Falsy(v) ==
    \/ v.ty = "undefined"
    \/ v.ty = "null"
    \/ v.ty = "string" /\ v.val = ""
    \/ v.ty = "number" /\ v.val = "0"

\* Number(s) of a string, as the digits it denotes
ToNumber(s) == IF s = "" THEN "0" ELSE s

\* a == b
LooseEq(a, b) ==
    CASE a.ty = b.ty -> a.val = b.val
      [] a.ty \in {"null", "undefined"} /\ b.ty \in {"null", "undefined"} -> TRUE
      [] a.ty = "number" /\ b.ty = "string" -> a.val = ToNumber(b.val)
      [] a.ty = "string" /\ b.ty = "number" -> ToNumber(a.val) = b.val
      [] OTHER -> FALSE

\* String.prototype.trim on the strings in use
Trim(s) ==
    CASE s = "Al   " -> "Al"
      [] s = " Dave " -> "Dave"
      [] s = "  " -> ""
      [] OTHER -> s

\* ------------------------------------------------------------- Utility.*
\* String.prototype.toLowerCase on the e-mail addresses in use
ToLowerCase(s) ==
    CASE s = "A@X.io" -> "a@x.io"
      [] s = "C@x.io" -> "c@x.io"
      [] OTHER -> s

\* Utility.hash(email, 'md5'): injective on the addresses in use
HashMd5(s) ==
    CASE s = "a@x.io" -> "k1"
      [] s = "b@x.io" -> "k2"
      [] s = "c@x.io" -> "k3"
      [] s = "d@x.io" -> "k4"
      [] OTHER -> "k?" \o s

\* Utility.hash(pass)
Hash(s) == "#" \o s

\* Utility.isValidPassword: alphanumeric, at least 8 characters, a special one
IsValidPassword(s) == s \in {"good#Pass1", "other#Pass2"}

\* Utility.isValidEmail
IsValidEmail(s) == s \in {"a@x.io", "b@x.io", "c@x.io", "C@x.io", "d@x.io"}

\* parseInt(session.split('|')[1]) > Date.now(), at the instant of the run:
\* the expiry of "null|0" is past, a string without '|' parses to NaN
ExpiryInFuture(session) ==
    CASE session = "t1|9" -> TRUE
      [] session = "t2|9" -> TRUE
      [] session = "zz|9" -> TRUE
      [] session = "null|0" -> FALSE
      [] OTHER -> FALSE

\* ------------------------------------------------------------ identity store
Keys == {"k1", "k2", "k3", "k4", "null"}

NoDoc == [exists |-> FALSE, pass |-> "", name |-> "", email |-> "",
          isBlocked |-> FALSE, session |-> ""]

UserDoc(pass, name, email, blocked, session) ==
    [exists |-> TRUE, pass |-> pass, name |-> name, email |-> email,
     isBlocked |-> blocked, session |-> session]

\* ref.orderByChild('session').equalTo(tok).get(): the keys of the matches
DbQuerySession(users, tok) ==
    {k \in Keys : users[k].exists /\ users[k].session = tok}

\* dref.update({session: s}) on users/<key>: merge, creating the node
DbUpdateSession(users, key, s) ==
    [users EXCEPT ![key] = [@ EXCEPT !.exists = TRUE, !.session = s]]

\* ------------------------------------------------------------------- state
VARIABLES
    pIds,           \* Master.pIds
    player,         \* the Player objects, by creation order: id, sock, dbRef
    players,        \* Master.players
    stalePlayers,   \* Master.stalePlayers: persistentRef -> Player
    games,          \* Master.games
    open,           \* the sockets whose transport is open
    users,          \* identity store: users/<key>
    usersSession,   \* identity store: users/session (child of the users node)
    regAccessCode,  \* identity store: regAccessCode
    rotations,      \* regAccessCode writes issued by randomizeAccess, not served
    usedCodes,      \* history: the access codes of the Registers that succeeded
    h,              \* handleMSG invocations, each suspended at an await
    out             \* what the last step wrote to sockets: messages, closes

vars == <<pIds, player, players, stalePlayers, games, open, users,
          usersSession, regAccessCode, rotations, usedCodes, h, out>>

gate == <<regAccessCode, rotations, usedCodes>>

\* A handleMSG invocation suspended at an await: its position, the Player it
\* was called with, the socket the message came in on, the message data, the
\* store path key and the awaited result
Handler(pc, plr, sock, data, key) ==
    [pc |-> pc, plr |-> plr, sock |-> sock, data |-> data, key |-> key,
     found |-> FALSE, doc |-> NoDoc, code |-> Null]

\* ------------------------------------------------------------ Map helpers
MapSet(m, k, v) == [x \in DOMAIN m \cup {k} |-> IF x = k THEN v ELSE m[x]]
MapDelete(m, k) == [x \in DOMAIN m \ {k} |-> m[x]]
MapValues(m) == {m[k] : k \in DOMAIN m}

\* --------------------------------------------------- registries as a value
\* The part of the state the synchronous Player/Master calls read and write.
Reg == [player |-> player, players |-> players, stalePlayers |-> stalePlayers,
        open |-> open, out |-> <<>>]

Msg(R, p, type, text, terminal) ==
    [to |-> p, sock |-> R.player[p].sock, type |-> type, text |-> text,
     terminal |-> terminal]

\* plr.send(type, data, isTerminal)
Send(R, p, type, text, terminal) ==
    [R EXCEPT !.out = Append(@, Msg(R, p, type, text, terminal))]

\* Player.switchState(sock?)
SwitchState(R, p, sock) ==
    IF sock # NoSock
    THEN [R EXCEPT !.player[p].sock = sock, !.players = @ \cup {p}]
    ELSE [R EXCEPT !.player[p].sock = NoSock, !.player[p].id = InvalidId,
                   !.players = @ \ {p}]

\* Player.postAuth(name, persistentRef, queue?, isRespawn?)
PostAuth(R, p, name, ref, isRespawn) ==
    Send([R EXCEPT !.player[p].dbRef = ref], p, "Authenticated",
         IF isRespawn THEN "respawned" ELSE "logged-in", FALSE)

\* Player.fireDisconnection(explicit)
FireDisconnection(R, p, explicit) ==
    LET ref == R.player[p].dbRef
        R1 == [R EXCEPT !.players = @ \ {p}]
    IN  IF explicit
        THEN [Send(R1, p, "close", "", FALSE) EXCEPT
                        !.stalePlayers = MapDelete(@, ref),
                        !.open = @ \ {R.player[p].sock},
                        !.player[p] = [id |-> InvalidId, sock |-> NoSock,
                                       dbRef |-> ""]]
        ELSE IF ref # ""
             THEN [R1 EXCEPT !.stalePlayers = MapSet(@, ref, p)]
             ELSE R1

\* tryRespawn without this.stalePlayers.delete(eref)
TryRespawnKeepsEntry(R, p, name, eref) ==
    IF eref \notin DOMAIN R.stalePlayers
    THEN [ok |-> FALSE, R |-> R]
    ELSE LET respPlr == R.stalePlayers[eref]
             R2 == SwitchState(R, respPlr, R.player[p].sock)
             R3 == PostAuth(R2, respPlr, name, eref, TRUE)
             R4 == [R3 EXCEPT !.player[respPlr].id = R3.player[p].id]
             R5 == SwitchState(R4, p, NoSock)
             R6 == [R5 EXCEPT !.player[p].id = InvalidId]
         IN  [ok |-> TRUE, R |-> R6]

\* tryRespawn without respPlr.id = p.id
TryRespawnKeepsId(R, p, name, eref) ==
    IF eref \notin DOMAIN R.stalePlayers
    THEN [ok |-> FALSE, R |-> R]
    ELSE LET respPlr == R.stalePlayers[eref]
             R1 == [R EXCEPT !.stalePlayers = MapDelete(@, eref)]
             R2 == SwitchState(R1, respPlr, R1.player[p].sock)
             R3 == PostAuth(R2, respPlr, name, eref, TRUE)
             R5 == SwitchState(R3, p, NoSock)
             R6 == [R5 EXCEPT !.player[p].id = InvalidId]
         IN  [ok |-> TRUE, R |-> R6]

\* broadcast's third parameter: a function, by the Players it accepts, or a
\* Player reference
CheckFn(S) == [ty |-> "function", val |-> S]
CheckPlr(p) == [ty |-> "player", val |-> p]

\* proceed, with the exclusion of check dropped
ProceedIgnoresPlayer(check, plr) ==
    \/ Falsy(check)
    \/ IF check.ty = "function" THEN plr \in check.val ELSE TRUE

\* const proceed = !check || (isFunc ? check(plr) : check !== plr)
Proceed(check, plr) ==
    \/ Falsy(check)
    \/ IF check.ty = "function"
       THEN plr \in check.val
       ELSE ~(check.ty = "player" /\ check.val = plr)

\* for (const plr of this.players) { ...; if (proceed) plr.send(type, data) }
RECURSIVE BroadcastLoop(_, _, _, _, _)
BroadcastLoop(R, rest, type, data, check) ==
    IF rest = {}
    THEN R
    ELSE LET plr == CHOOSE x \in rest : \A y \in rest : x <= y
         IN  BroadcastLoop(IF Proceed(check, plr)
                           THEN Send(R, plr, type, data, FALSE)
                           ELSE R,
                           rest \ {plr}, type, data, check)

\* Master.broadcast(type, data, check)
Broadcast(R, type, data, check) == BroadcastLoop(R, R.players, type, data, check)

\* { status: exPlr.status, id: exPlr.dbRef }
StatusData(status, id) == status \o ":" \o id

\* Master.pushStatusUpdate(exPlr)
PushStatusUpdate(R, exPlr, status) ==
    Broadcast(R, "Status-Update", StatusData(status, R.player[exPlr].dbRef),
              CheckPlr(exPlr))

\* Master.tryRespawn(p, name, eref, queue)
TryRespawn(R, p, name, eref) ==
    IF eref \notin DOMAIN R.stalePlayers
    THEN [ok |-> FALSE, R |-> R]
    ELSE LET respPlr == R.stalePlayers[eref]
             R1 == [R EXCEPT !.stalePlayers = MapDelete(@, eref)]
             R2 == SwitchState(R1, respPlr, R1.player[p].sock)
             R3 == PostAuth(R2, respPlr, name, eref, TRUE)
             R4 == [R3 EXCEPT !.player[respPlr].id = R3.player[p].id]
             R5 == SwitchState(R4, p, NoSock)
             R6 == [R5 EXCEPT !.player[p].id = InvalidId]
         IN  [ok |-> TRUE, R |-> R6]

\* if (!this.tryRespawn(plr, ...)) plr.postAuth(...)
RespawnOrAuth(R, p, name, eref) ==
    LET t == TryRespawn(R, p, name, eref)
    IN  IF t.ok THEN t.R ELSE PostAuth(R, p, name, eref, FALSE)

\* Writes a registry value back to the state.
Commit(R) ==
    /\ player' = R.player
    /\ players' = R.players
    /\ stalePlayers' = R.stalePlayers
    /\ open' = R.open
    /\ out' = R.out

\* The Player bound to socket c
Owner(c) == CHOOSE p \in DOMAIN player : player[p].sock = c

Suspended == BagToSet(h)
Spawn(r) == h' = h (+) SetToBag({r})
Advance(r, r2) == h' = (h (-) SetToBag({r})) (+) SetToBag({r2})
Finish(r) == h' = h (-) SetToBag({r})

\* ------------------------------------------------------------------ inputs
LoginData(sess, email, pass) ==
    [type |-> "Login", sess |-> sess, email |-> email, pass |-> Str(pass),
     access |-> Undef, name |-> Undef]

\* every branch of the Login case
LoginInputsAuth ==
    { LoginData(Str("t1|9"), Str("b@x.io"), "good#Pass1"),
      LoginData(Str("null|0"), Str("a@x.io"), "good#Pass1"),
      LoginData(Str("t2|9"), Undef, ""),
      LoginData(Num("7"), Str("A@X.io"), "good#Pass1"),
      LoginData(Undef, Str("a@x.io"), "wrong"),
      LoginData(Undef, Str("b@x.io"), "good#Pass1"),
      LoginData(Undef, Undef, "good#Pass1") }

\* both ways in, and one way to fail on each path
LoginInputs ==
    { LoginData(Str("t1|9"), Str("b@x.io"), "good#Pass1"),
      LoginData(Str("null|0"), Str("a@x.io"), "good#Pass1"),
      LoginData(Num("7"), Str("A@X.io"), "good#Pass1"),
      LoginData(Undef, Str("a@x.io"), "wrong") }

\* session tokens only, and a wrong password
LoginInputsSess ==
    { LoginData(Str("t1|9"), Str("b@x.io"), "good#Pass1"),
      LoginData(Str("null|0"), Str("a@x.io"), "good#Pass1"),
      LoginData(Undef, Str("a@x.io"), "wrong") }

LogoutData ==
    [type |-> "Logout", sess |-> Undef, email |-> Undef, pass |-> Undef,
     access |-> Undef, name |-> Undef]

RegisterData(access, name, email, pass) ==
    [type |-> "Register", sess |-> Undef, email |-> email, pass |-> pass,
     access |-> access, name |-> name]

RegisterInputs ==
    { RegisterData(Str("123456"), Str("Carol"), Str("C@x.io"), Str("good#Pass1")),
      RegisterData(Num("123456"), Str("Carla"), Str("c@x.io"), Str("other#Pass2")),
      RegisterData(Str("123456"), Str("Dave"), Str("d@x.io"), Str("good#Pass1")),
      RegisterData(Str("000000"), Str("Dave"), Str("d@x.io"), Str("good#Pass1")),
      RegisterData(Str("123456"), Str("Bob"), Str("d@x.io"), Str("good#Pass1")) }

\* one payload for each check of the Register case, in the order of the code:
\* the gate, the malformed test, the two length tests, the password, the
\* e-mail, the duplicate test, and two that pass them all
RegisterInputsFields ==
    { RegisterData(Str("000000"), Str("Dave"), Str("d@x.io"), Str("good#Pass1")),
      RegisterData(Undef, Str("Dave"), Str("d@x.io"), Str("good#Pass1")),
      RegisterData(Num("123456"), Undef, Str("d@x.io"), Str("good#Pass1")),
      RegisterData(Num("123456"), Str("Dave"), Str("d@x.io"), Num("12345678")),
      RegisterData(Str("123456"), Str("Bob"), Str("d@x.io"), Str("good#Pass1")),
      RegisterData(Str("123456"), Str("ABCDEFGHIJKLMNOPQRSTU"), Str("d@x.io"), Str("good#Pass1")),
      RegisterData(Str("123456"), Str("Dave"), Str("d@x.io"), Str("short")),
      RegisterData(Str("123456"), Str("Dave"), Str("d-at-x.io"), Str("good#Pass1")),
      RegisterData(Str("123456"), Str("Alice"), Str("a@x.io"), Str("good#Pass1")),
      RegisterData(Str("123456"), Str(" Dave "), Str("d@x.io"), Str("good#Pass1")),
      RegisterData(Str("123456"), Str("Al   "), Str("C@x.io"), Str("good#Pass1")) }

\* payloads with and without an access code
RegisterInputsGate ==
    { RegisterData(Undef, Str("Carol"), Str("C@x.io"), Str("good#Pass1")),
      RegisterData(Null, Str("Dave"), Str("d@x.io"), Str("good#Pass1")),
      RegisterData(Str("123456"), Str("Dave"), Str("d@x.io"), Str("good#Pass1")),
      RegisterData(Str(""), Str("Carla"), Str("c@x.io"), Str("other#Pass2")) }

\* parseInt(`${Math.random() * (999999 - 100000) + 100000}`)
NewCodes == {"123456", "654321"}

\* ------------------------------------------------------------------- Init
InitStore(code) ==
    /\ pIds = 0
    /\ player = <<>>
    /\ players = {}
    /\ stalePlayers = <<>>
    /\ games = {}
    /\ open = {}
    /\ users = [k \in Keys |->
                  CASE k = "k1" -> UserDoc(Hash("good#Pass1"), "Alice", "a@x.io", FALSE, "t1|9")
                    [] k = "k2" -> UserDoc(Hash("good#Pass1"), "Bobby", "b@x.io", TRUE, "t2|9")
                    [] OTHER -> NoDoc]
    /\ usersSession = ""
    /\ regAccessCode = code
    /\ rotations = EmptyBag
    /\ usedCodes = {}
    /\ h = EmptyBag
    /\ out = <<>>

\* a store whose regAccessCode an operator has set
Init == InitStore(Num("123456"))

\* a store nobody has written regAccessCode to: randomizeAccess runs only
\* after a Register
InitNoCode == InitStore(Null)

\* ---------------------------------------------------------------- actions
\* the connection handler giving every Player the id 0
ConnectSameId(n) ==
    /\ pIds < n
    /\ player' = [x \in DOMAIN player \cup {pIds} |->
                    IF x = pIds THEN [id |-> 0, sock |-> pIds, dbRef |-> ""]
                    ELSE player[x]]
    /\ players' = players \cup {pIds}
    /\ open' = open \cup {pIds}
    /\ pIds' = pIds + 1
    /\ out' = <<>>
    /\ UNCHANGED <<gate, stalePlayers, games, users, usersSession, h>>

\* server.on('connection'): new Player(pSock, this.pIds++)
Connect(n) ==
    /\ pIds < n
    /\ player' = [x \in DOMAIN player \cup {pIds} |->
                    IF x = pIds THEN [id |-> pIds, sock |-> pIds, dbRef |-> ""]
                    ELSE player[x]]
    /\ players' = players \cup {pIds}
    /\ open' = open \cup {pIds}
    /\ pIds' = pIds + 1
    /\ out' = <<>>
    /\ UNCHANGED <<gate, stalePlayers, games, users, usersSession, h>>

\* transport close of socket c
Disconnect(c) ==
    /\ c \in open
    /\ Commit([FireDisconnection(Reg, Owner(c), FALSE) EXCEPT !.open = @ \ {c}])
    /\ UNCHANGED <<gate, pIds, games, users, usersSession, h>>

\* handleMSG, case "Login", up to its first await
RecvLogin(c, d) ==
    /\ c \in open
    /\ BagCardinality(h) < MaxInFlight
    /\ LET plr == Owner(c)
       IN  IF ~Falsy(d.sess) /\ d.sess.ty = "string"
           THEN Spawn(Handler("LoginSessGet", plr, c, d, ""))
           ELSE LET email == IF d.email.ty = "string"
                             THEN Str(ToLowerCase(d.email.val)) ELSE d.email
                    emDbRefLog == IF d.email.ty = "string"
                                  THEN HashMd5(email.val) ELSE "null"
                IN  Spawn(Handler("LoginUserGet", plr, c,
                                  [d EXCEPT !.email = email], emDbRefLog))
    /\ out' = <<>>
    /\ UNCHANGED <<gate, pIds, player, players, stalePlayers, games, open, users,
                   usersSession>>

\* dbGet('users', 'session', data.sess) served by the store
StoreQuerySession(r) ==
    /\ r.pc = "LoginSessGet"
    /\ LET m == DbQuerySession(users, r.data.sess.val)
       IN  IF m = {}
           THEN Advance(r, [r EXCEPT !.pc = "LoginSessGot"])
           ELSE \E dref \in m :
                  Advance(r, [r EXCEPT !.pc = "LoginSessGot", !.found = TRUE,
                                       !.key = dref, !.doc = users[dref]])
    /\ out' = <<>>
    /\ UNCHANGED <<gate, pIds, player, players, stalePlayers, games, open, users,
                   usersSession>>

\* the session-token path without the return after "Session expired!": the
\* handler goes on to the password path
LoginSessResumeFallsThrough(r) ==
    /\ r.pc = "LoginSessGot"
    /\ LET plr == r.plr
           userDObj == r.doc
           dref == r.key
       IN  IF r.found /\ ExpiryInFuture(userDObj.session)
           THEN /\ IF ~userDObj.isBlocked
                   THEN Commit(RespawnOrAuth(Reg, plr, userDObj.name, dref))
                   ELSE Commit(Send(Reg, plr, "Warn", "Your are blocked by admin", TRUE))
                /\ Finish(r)
           ELSE /\ Commit(Send(Reg, plr, "Warn", "Session expired! login again", TRUE))
                /\ Advance(r, [r EXCEPT !.pc = "LoginUserGet", !.found = FALSE,
                                        !.doc = NoDoc,
                                        !.key = IF r.data.email.ty = "string"
                                                THEN HashMd5(ToLowerCase(r.data.email.val))
                                                ELSE "null"])
    /\ UNCHANGED <<gate, pIds, games, users, usersSession>>

\* handleMSG, case "Login", session-token path after the await
LoginSessResume(r) ==
    /\ r.pc = "LoginSessGot"
    /\ LET plr == r.plr
           userDObj == r.doc
           dref == r.key
       IN  IF r.found /\ ExpiryInFuture(userDObj.session)
           THEN IF ~userDObj.isBlocked
                THEN Commit(RespawnOrAuth(Reg, plr, userDObj.name, dref))
                ELSE Commit(Send(Reg, plr, "Warn", "Your are blocked by admin", TRUE))
           ELSE Commit(Send(Reg, plr, "Warn", "Session expired! login again", TRUE))
    /\ Finish(r)
    /\ UNCHANGED <<gate, pIds, games, users, usersSession>>

\* dbGet(`users/${emDbRefLog}`) served by the store
StoreGetUser(r) ==
    /\ r.pc = "LoginUserGet"
    /\ Advance(r, [r EXCEPT !.pc = "LoginUserGot", !.found = users[r.key].exists,
                            !.doc = users[r.key]])
    /\ out' = <<>>
    /\ UNCHANGED <<gate, pIds, player, players, stalePlayers, games, open, users,
                   usersSession>>

\* the password path without the isBlocked check
LoginPassResumeIgnoresBlock(r) ==
    /\ r.pc = "LoginUserGot"
    /\ LET plr == r.plr
           userDet == r.doc
           emDbRefLog == r.key
       IN  IF r.found
           THEN IF userDet.pass = Hash(r.data.pass.val)
                THEN Commit(RespawnOrAuth(Reg, plr, userDet.name, emDbRefLog))
                ELSE Commit(Send(Reg, plr, "Error", "Oh! It's wrong login password.", TRUE))
           ELSE Commit(Send(Reg, plr, "Error", "Please register first to continue", TRUE))
    /\ Finish(r)
    /\ UNCHANGED <<gate, pIds, games, users, usersSession>>

\* the password path answering a missing account with a Warn
LoginPassResumeWarnsMissing(r) ==
    /\ r.pc = "LoginUserGot"
    /\ LET plr == r.plr
           userDet == r.doc
           emDbRefLog == r.key
       IN  IF r.found
           THEN IF userDet.pass = Hash(r.data.pass.val)
                THEN IF ~userDet.isBlocked
                     THEN Commit(RespawnOrAuth(Reg, plr, userDet.name, emDbRefLog))
                     ELSE Commit(Send(Reg, plr, "Warn", "Your are blocked by admin", TRUE))
                ELSE Commit(Send(Reg, plr, "Error", "Oh! It's wrong login password.", TRUE))
           ELSE Commit(Send(Reg, plr, "Warn", "Please register first to continue", TRUE))
    /\ Finish(r)
    /\ UNCHANGED <<gate, pIds, games, users, usersSession>>

\* handleMSG, case "Login", password path after the await
LoginPassResume(r) ==
    /\ r.pc = "LoginUserGot"
    /\ LET plr == r.plr
           userDet == r.doc
           emDbRefLog == r.key
       IN  IF r.found
           THEN IF userDet.pass = Hash(r.data.pass.val)
                THEN IF ~userDet.isBlocked
                     THEN Commit(RespawnOrAuth(Reg, plr, userDet.name, emDbRefLog))
                     ELSE Commit(Send(Reg, plr, "Warn", "Your are blocked by admin", TRUE))
                ELSE Commit(Send(Reg, plr, "Error", "Oh! It's wrong login password.", TRUE))
           ELSE Commit(Send(Reg, plr, "Error", "Please register first to continue", TRUE))
    /\ Finish(r)
    /\ UNCHANGED <<gate, pIds, games, users, usersSession>>

\* handleMSG, case "Logout", up to its await: dbSet(UPDATE, `users/${plr.dbRef}`)
RecvLogout(c) ==
    /\ c \in open
    /\ BagCardinality(h) < MaxInFlight
    /\ Spawn(Handler("LogoutSet", Owner(c), c, LogoutData,
                     player[Owner(c)].dbRef))
    /\ out' = <<>>
    /\ UNCHANGED <<gate, pIds, player, players, stalePlayers, games, open, users,
                   usersSession>>

\* dref.update({ session: 'null|0' }) served by the store
StoreUpdateSession(r) ==
    /\ r.pc = "LogoutSet"
    /\ IF r.key = ""
       THEN usersSession' = "null|0" /\ users' = users
       ELSE users' = DbUpdateSession(users, r.key, "null|0")
            /\ usersSession' = usersSession
    /\ Advance(r, [r EXCEPT !.pc = "LogoutDone"])
    /\ out' = <<>>
    /\ UNCHANGED <<gate, pIds, player, players, stalePlayers, games, open>>

\* Logout tearing down with fireDisconnection(false)
LogoutResumeImplicit(r) ==
    /\ r.pc = "LogoutDone"
    /\ Commit(FireDisconnection(Reg, r.plr, FALSE))
    /\ Finish(r)
    /\ UNCHANGED <<gate, pIds, games, users, usersSession>>

\* handleMSG, case "Logout", after the await: plr.fireDisconnection(true)
LogoutResume(r) ==
    /\ r.pc = "LogoutDone"
    /\ Commit(FireDisconnection(Reg, r.plr, TRUE))
    /\ Finish(r)
    /\ UNCHANGED <<gate, pIds, games, users, usersSession>>

\* handleMSG, case "Register", up to its first await: dbGet('regAccessCode')
RecvRegister(c, d) ==
    /\ c \in open
    /\ BagCardinality(h) < MaxInFlight
    /\ Spawn(Handler("RegCodeGet", Owner(c), c, d, ""))
    /\ out' = <<>>
    /\ UNCHANGED <<gate, pIds, player, players, stalePlayers, games, open,
                   users, usersSession>>

\* dbGet('regAccessCode') served by the store
StoreGetAccess(r) ==
    /\ r.pc = "RegCodeGet"
    /\ Advance(r, [r EXCEPT !.pc = "RegCodeGot", !.code = regAccessCode])
    /\ out' = <<>>
    /\ UNCHANGED <<gate, pIds, player, players, stalePlayers, games, open,
                   users, usersSession>>

\* a rejection whose reply is not marked terminal
RejectNotTerminal(r, text) ==
    /\ Commit(Send(Reg, r.plr, "Error", text, FALSE))
    /\ Finish(r)

\* plr.send('Error', text, true); return
Reject(r, text) ==
    /\ Commit(Send(Reg, r.plr, "Error", text, TRUE))
    /\ Finish(r)

\* handleMSG, case "Register": the gate and the field checks, up to
\* dbGet(`users/${emDbRefSig}`)
RegCodeResume(r) ==
    /\ r.pc = "RegCodeGot"
    /\ LET data == r.data
       IN  IF LooseEq(r.code, data.access)
           THEN IF \/ Falsy(data.name) \/ Falsy(data.email) \/ Falsy(data.pass)
                   \/ data.name.ty # "string" \/ data.email.ty # "string"
                   \/ data.pass.ty # "string"
                THEN Reject(r, "Invalid or Malformed request.")
                ELSE IF Len(data.name.val) < MinNameLen
                THEN Reject(r, "Name is too short, it should be at least 4 characters long.")
                ELSE IF Len(data.name.val) > MaxNameLen
                THEN Reject(r, "Name is too long, it must not exceed 20 characters.")
                ELSE IF ~IsValidPassword(data.pass.val)
                THEN Reject(r, "Password should be alphanumeric, with at least 8 characters, including special characters.")
                ELSE IF Falsy(data.email) \/ ~IsValidEmail(data.email.val)
                THEN Reject(r, "This email doesn't looks like a valid one, try again.")
                ELSE LET name == Trim(data.name.val)
                         email == ToLowerCase(Trim(data.email.val))
                         emDbRefSig == HashMd5(email)
                     IN  /\ Advance(r, [r EXCEPT !.pc = "RegUserGet",
                                                 !.data.name = Str(name),
                                                 !.data.email = Str(email),
                                                 !.key = emDbRefSig])
                         /\ Commit(Reg)
           ELSE Reject(r, "Access code is invalid!")
    /\ UNCHANGED <<gate, pIds, games, users, usersSession>>

\* dbGet(`users/${emDbRefSig}`) served by the store
StoreGetUserReg(r) ==
    /\ r.pc = "RegUserGet"
    /\ Advance(r, [r EXCEPT !.pc = "RegUserGot", !.found = users[r.key].exists])
    /\ out' = <<>>
    /\ UNCHANGED <<gate, pIds, player, players, stalePlayers, games, open,
                   users, usersSession>>

\* handleMSG, case "Register": the duplicate check, up to dbSet(WRITE, ...)
RegUserResume(r) ==
    /\ r.pc = "RegUserGot"
    /\ IF r.found
       THEN Reject(r, "User already exists! Please login to continue.")
       ELSE Advance(r, [r EXCEPT !.pc = "RegUserSet"]) /\ Commit(Reg)
    /\ UNCHANGED <<gate, pIds, games, users, usersSession>>

\* dref.set({pass, email, name, isBlocked: false}) served by the store
StoreWriteUser(r) ==
    /\ r.pc = "RegUserSet"
    /\ users' = [users EXCEPT ![r.key] =
                    UserDoc(Hash(r.data.pass.val), r.data.name.val,
                            r.data.email.val, FALSE, "")]
    /\ Advance(r, [r EXCEPT !.pc = "RegUserSetDone"])
    /\ out' = <<>>
    /\ UNCHANGED <<gate, pIds, player, players, stalePlayers, games, open,
                   usersSession>>

\* handleMSG, case "Register", after the write: this.randomizeAccess() runs up
\* to its await (the regAccessCode write is issued, nobody awaits it), then
\* plr.postAuth(data.name, emDbRefSig)
RegisterFinish(r) ==
    /\ r.pc = "RegUserSetDone"
    /\ \E code \in NewCodes : rotations' = rotations (+) SetToBag({code})
    /\ Commit(PostAuth(Reg, r.plr, r.data.name.val, r.key, FALSE))
    /\ usedCodes' = usedCodes \cup {r.data.access.val}
    /\ Finish(r)
    /\ UNCHANGED <<regAccessCode, pIds, games, users, usersSession>>

\* randomizeAccess: dref.set(code) on regAccessCode served by the store
StoreWriteAccess ==
    /\ \E code \in BagToSet(rotations) :
          /\ regAccessCode' = Num(code)
          /\ rotations' = rotations (-) SetToBag({code})
    /\ out' = <<>>
    /\ UNCHANGED <<usedCodes, pIds, player, players, stalePlayers, games, open,
                   users, usersSession, h>>

\* the message types handleMSG has a case for
KnownTypes == {"Login", "Register", "Logout", "Search", "Cancel-Search"}

\* some types it has no case for
OtherTypes == {"Ping", "login", ""}

\* handleMSG, default case: plr.send("Error", "Invalid request!")
RecvOther(c, type) ==
    /\ c \in open
    /\ type \notin KnownTypes
    /\ Commit(Send(Reg, Owner(c), "Error", "Invalid request!", FALSE))
    /\ UNCHANGED <<gate, pIds, games, users, usersSession, h>>

\* the status values a Player reports
Statuses == {"idle", "searching"}

\* Player exPlr emits "status": pushStatusUpdate(exPlr)
StatusEvent(exPlr, status) ==
    /\ exPlr \in DOMAIN player
    /\ Commit(PushStatusUpdate(Reg, exPlr, status))
    /\ UNCHANGED <<gate, pIds, games, users, usersSession, h>>

\* the filters a caller passes to broadcast
Checks(n) ==
    {Undef, Null} \cup {CheckFn(S) : S \in SUBSET (0..(n - 1))}
                  \cup {CheckPlr(p) : p \in 0..(n - 1)}

\* a collaborator calls Master.broadcast(type, data, check)
BroadcastCall(check) ==
    /\ Commit(Broadcast(Reg, "Notice", "", check))
    /\ UNCHANGED <<gate, pIds, games, users, usersSession, h>>

\* The positions at which a handler waits for the identity store.
AwaitPcs == {"LoginSessGet", "LoginUserGet", "LogoutSet", "RegCodeGet",
             "RegUserGet", "RegUserSet"}

\* The store call a handler awaits fails: ref.get() / dref.set() / dref.update()
\* rejects, dbGet / dbSet reject in turn, and the await in handleMSG throws.
\* handleMSG has no try/catch and its caller drops the promise, so the
\* invocation ends there: nothing is sent and nothing after the await runs.
StoreFail(r) ==
    /\ r.pc \in AwaitPcs
    /\ Finish(r)
    /\ out' = <<>>
    /\ UNCHANGED <<gate, pIds, player, players, stalePlayers, games, open,
                   users, usersSession>>

\* The session life cycle with at most n connections and Logins from inputs.
NextSession(n, inputs) ==
    \/ Connect(n)
    \/ \E c \in 0..(n - 1) : Disconnect(c)
    \/ \E c \in 0..(n - 1), d \in inputs : RecvLogin(c, d)
    \/ \E r \in Suspended : StoreQuerySession(r)
    \/ \E r \in Suspended : LoginSessResume(r)
    \/ \E r \in Suspended : StoreGetUser(r)
    \/ \E r \in Suspended : LoginPassResume(r)
    \/ \E c \in 0..(n - 1) : RecvLogout(c)
    \/ \E r \in Suspended : StoreUpdateSession(r)
    \/ \E r \in Suspended : LogoutResume(r)

Next == NextSession(MaxConn, LoginInputs)

Spec == Init /\ [][Next]_vars

NextSess == NextSession(MaxConn, LoginInputsSess)

SpecSess == Init /\ [][NextSess]_vars

NextAuth == NextSession(MaxConnAuth, LoginInputsAuth)

SpecAuth == Init /\ [][NextAuth]_vars

\* Registration with at most n connections and Registers from inputs.
NextRegister(n, inputs) ==
    \/ Connect(n)
    \/ \E c \in 0..(n - 1), d \in inputs : RecvRegister(c, d)
    \/ \E r \in Suspended : StoreGetAccess(r)
    \/ \E r \in Suspended : RegCodeResume(r)
    \/ \E r \in Suspended : StoreGetUserReg(r)
    \/ \E r \in Suspended : RegUserResume(r)
    \/ \E r \in Suspended : StoreWriteUser(r)
    \/ \E r \in Suspended : RegisterFinish(r)
    \/ StoreWriteAccess

NextReg == NextRegister(MaxConnReg, RegisterInputs)

SpecReg == Init /\ [][NextReg]_vars

NextFields == NextRegister(MaxConnFields, RegisterInputsFields)

SpecFields == Init /\ [][NextFields]_vars

NextGate == NextRegister(MaxConnReg, RegisterInputsGate)

SpecGate == InitNoCode /\ [][NextGate]_vars

\* The session life cycle with a fallible identity store.
NextFail ==
    \/ NextSession(MaxConnAuth, LoginInputsSess)
    \/ \E r \in Suspended : StoreFail(r)

SpecFail == Init /\ [][NextFail]_vars

\* The session life cycle with unrecognized messages, status events and
\* broadcasts.
NextCast ==
    \/ NextSession(MaxConnAuth, LoginInputsSess)
    \/ \E c \in 0..(MaxConnAuth - 1), type \in OtherTypes : RecvOther(c, type)
    \/ \E p \in 0..(MaxConnAuth - 1), s \in Statuses : StatusEvent(p, s)
    \/ \E check \in Checks(MaxConnAuth) : BroadcastCall(check)

SpecCast == Init /\ [][NextCast]_vars

TypeOK ==
    /\ pIds \in Nat
    /\ DOMAIN player = 0..(pIds - 1)
    /\ players \subseteq DOMAIN player
    /\ DOMAIN stalePlayers \subseteq Keys
    /\ \A c \in open : \E p \in DOMAIN player : player[p].sock = c

\* ------------------------------------------------------- reading a step
\* The step resumes handler r and r returns in it.
Returns(r) == r \in BagToSet(h) /\ h' = h (-) SetToBag({r})

\* The step starts a handler r for a message that came in.
Starts(r) == r \in BagToSet(h') /\ h' = h (+) SetToBag({r})

\* r is a Login resumed with a result that passes authentication.
LoginPasses(r) ==
    \/ /\ r.pc = "LoginSessGot"
       /\ r.found /\ ExpiryInFuture(r.doc.session) /\ ~r.doc.isBlocked
    \/ /\ r.pc = "LoginUserGot"
       /\ r.found /\ r.doc.pass = Hash(r.data.pass.val) /\ ~r.doc.isBlocked

\* r is a Login resumed with a result that fails authentication.
LoginFails(r) == r.pc \in {"LoginSessGot", "LoginUserGot"} /\ ~LoginPasses(r)

Authenticated(m) == m.type = "Authenticated"

\* ------------------------------------------------------------------ claims

\* C1: every Player whose persistentRef is non-empty is in exactly one of the
\* active player set and the stale player registry.
C1_ExactlyOneRegistry ==
    \A p \in DOMAIN player :
        player[p].dbRef # "" =>
            (p \in players) # (p \in MapValues(stalePlayers))

\* C2: the active player set never holds two distinct Players with the same
\* non-empty persistentRef.
C2_UniqueActiveRef ==
    \A p, q \in players :
        (p # q /\ player[p].dbRef # "") => player[p].dbRef # player[q].dbRef

C4_AccessCodeSingleUse ==
    [][\A r \in BagToSet(h) :
         (Returns(r) /\ r.pc = "RegUserSetDone") =>
            r.data.access.val \notin usedCodes
      ]_vars

\* C5: while a store call issued for a message from a connection is in flight,
\* no other message from that connection is being handled.
C5_OneMessagePerConnection ==
    \A r \in BagToSet(h) :
        r.pc \in {"LoginSessGet", "LoginUserGet", "LogoutSet"} =>
            /\ CopiesIn(r, h) = 1
            /\ \A r2 \in BagToSet(h) : r2 # r => r2.sock # r.sock

\* C6: a session-token Login that passes authentication for a key K that is
\* stale, sent by a Player other than the stale one that still holds its
\* socket, respawns: K leaves the stale registry, the stale Player is active
\* with persistentRef K, the sender's socket and the sender's id (not its old
\* id), and the sender has released its socket and has id -1.
C6_RespawnBySession ==
    [][\A r \in BagToSet(h) :
         ( /\ Returns(r) /\ r.pc = "LoginSessGot" /\ LoginPasses(r)
           /\ r.key \in DOMAIN stalePlayers
           /\ stalePlayers[r.key] # r.plr
           /\ player[r.plr].sock # NoSock ) =>
            LET s == stalePlayers[r.key]
            IN  /\ r.key \notin DOMAIN stalePlayers'
                /\ s \in players'
                /\ player'[s].dbRef = r.key
                /\ player'[s].sock = player[r.plr].sock
                /\ player'[s].id = player[r.plr].id
                /\ player'[s].id # player[s].id
                /\ player'[r.plr].sock = NoSock
                /\ player'[r.plr].id = InvalidId
                /\ r.plr \notin players'
      ]_vars

\* C6 witness: a stale Player has just been respawned on another connection's
\* socket and the donor is released.
C6_Witness ==
    /\ Len(out) = 1 /\ Authenticated(out[1]) /\ out[1].text = "respawned"
    /\ LET s == out[1].to
       IN  /\ s \in players
           /\ player[s].sock # s /\ player[s].sock \in open
           /\ player[s].id = player[s].sock
           /\ player[player[s].sock].sock = NoSock
           /\ player[player[s].sock].id = InvalidId
           /\ player[s].dbRef \notin DOMAIN stalePlayers
    /\ users["k1"].session = "t1|9"

\* C7: a Login whose sess is a non-empty string is handled on the session
\* path only: it never waits on the users/<key> lookup of the password path,
\* and when resumed it returns at once with exactly one outcome: an
\* authentication (match, expiry in the future, not blocked), the terminal
\* Warn of a blocked account, or the terminal Warn of no match or expiry.
C7_NoPasswordFallback ==
    [][\A r \in BagToSet(h) \cup BagToSet(h') :
         (r.data.type = "Login" /\ r.data.sess.ty = "string" /\ r.data.sess.val # "") =>
            /\ r.pc \in {"LoginSessGet", "LoginSessGot"}
            /\ (r.pc = "LoginSessGot" /\ CopiesIn(r, h') < CopiesIn(r, h)) =>
                  /\ Returns(r)
                  /\ Len(out') = 1
                  /\ IF r.found /\ ExpiryInFuture(r.doc.session)
                     THEN IF ~r.doc.isBlocked
                          THEN Authenticated(out'[1])
                          ELSE /\ out'[1].type = "Warn" /\ out'[1].terminal
                               /\ out'[1].text = "Your are blocked by admin"
                     ELSE /\ out'[1].type = "Warn" /\ out'[1].terminal
                          /\ out'[1].text = "Session expired! login again"
      ]_vars

\* C7 witness: a Login with an unmatched session token and a valid e-mail and
\* password has just been answered with the terminal Warn, nobody
\* authenticated.
C7_Witness ==
    /\ Len(out) = 1 /\ out[1].type = "Warn"
    /\ out[1].text = "Session expired! login again"
    /\ player[out[1].to].dbRef = ""
    /\ h = EmptyBag

\* C8: a Login that fails authentication leaves the active set, the stale
\* registry, the game rooms, every Player (the sender's persistentRef too) and
\* the open sockets unchanged and sends the sender one terminal Warn or Error.
C8_FailedLoginFrame ==
    [][\A r \in BagToSet(h) :
         (Returns(r) /\ LoginFails(r)) =>
            /\ players' = players
            /\ stalePlayers' = stalePlayers
            /\ games' = games
            /\ player' = player
            /\ open' = open
            /\ Len(out') = 1
            /\ out'[1].to = r.plr
            /\ out'[1].type \in {"Warn", "Error"}
            /\ out'[1].terminal
      ]_vars

\* C8 witness: a wrong-password Login of an authenticated, connected sender
\* has just been answered.
C8_Witness ==
    /\ Len(out) = 1 /\ out[1].type = "Error"
    /\ out[1].text = "Oh! It's wrong login password."
    /\ player[out[1].to].dbRef # ""
    /\ out[1].to \in players
    /\ DOMAIN stalePlayers # {}

\* C9: a Register never writes users/<key> over a document that exists, so at
\* most one Register for a key succeeds.
C9_NoDuplicateRegister ==
    [][\A r \in BagToSet(h) :
         (r.pc = "RegUserSet" /\ CopiesIn(r, h') < CopiesIn(r, h)) =>
            ~users[r.key].exists
      ]_vars

\* C10: Logout issues its 'null|0' update on users/<sender's persistentRef>;
\* the step that serves the update tears nothing down; the teardown step comes
\* with the marker already stored, closes the socket and leaves the Player out
\* of the active set and the stale registry, with no stale entry for its
\* identity; a Player outside both registries with no socket stays outside.
C10_LogoutOrder ==
    [][/\ \A r \in BagToSet(h') :
            (Starts(r) /\ r.pc = "LogoutSet") => r.key = player[r.plr].dbRef
       /\ \A r \in BagToSet(h) :
            (r.pc = "LogoutSet" /\ CopiesIn(r, h') < CopiesIn(r, h)) =>
                /\ players' = players /\ stalePlayers' = stalePlayers
                /\ player' = player /\ open' = open
                /\ r.key # "" => users'[r.key].session = "null|0"
       /\ \A r \in BagToSet(h) :
            (Returns(r) /\ r.pc = "LogoutDone") =>
                /\ r.key # "" => users[r.key].session = "null|0"
                /\ r.plr \notin players'
                /\ r.plr \notin MapValues(stalePlayers')
                /\ player[r.plr].dbRef \notin DOMAIN stalePlayers'
                /\ player[r.plr].sock \notin open'
       /\ \A p \in DOMAIN player :
            ( /\ player[p].sock = NoSock /\ p \notin players
              /\ p \notin MapValues(stalePlayers) ) =>
                (p \notin players' /\ p \notin MapValues(stalePlayers'))
      ]_vars

\* C10 witness: an authenticated Player's Logout has just torn it down, its
\* session marker stored.
C10_Witness ==
    /\ Len(out) = 1 /\ out[1].type = "close" /\ out[1].sock # NoSock
    /\ users["k1"].session = "null|0"
    /\ out[1].to \notin players
    /\ player[out[1].to].sock = NoSock
    /\ "k1" \notin DOMAIN stalePlayers

\* C11: when the store call of a Login, Register or Logout fails, the sender
\* gets one error reply and the registries, the Players and the store stay as
\* they were.
C11_StoreFailureReply ==
    [][\A r \in BagToSet(h) :
         (r.pc \in AwaitPcs /\ Returns(r)) =>
            /\ Len(out') = 1
            /\ out'[1].to = r.plr
            /\ out'[1].type = "Error"
            /\ players' = players /\ stalePlayers' = stalePlayers
            /\ player' = player /\ open' = open
            /\ users' = users /\ usersSession' = usersSession
      ]_vars

\* The number of messages of type t with data d that a step sent to Player p.
Received(o, p, t, d) ==
    Cardinality({i \in 1..Len(o) : o[i].to = p /\ o[i].type = t /\ o[i].text = d})

\* C12: broadcast sends one message to each active player its filter selects
\* and nothing else: everybody when the filter is absent or falsy, the players
\* a function accepts, everybody but the Player given; a status change of X
\* goes as 'Status-Update' to every active player except X.
C12_BroadcastSelects ==
    [][/\ \A check \in Checks(MaxConnAuth) :
            BroadcastCall(check) =>
               LET sel == CASE check.ty \in {"undefined", "null"} -> players
                            [] check.ty = "function" -> players \cap check.val
                            [] check.ty = "player" -> players \ {check.val}
               IN  /\ Len(out') = Cardinality(sel)
                   /\ \A p \in DOMAIN player :
                         Received(out', p, "Notice", "") = IF p \in sel THEN 1 ELSE 0
       /\ \A x \in DOMAIN player, s \in Statuses :
            StatusEvent(x, s) =>
               /\ Len(out') = Cardinality(players \ {x})
               /\ \A p \in DOMAIN player :
                     Received(out', p, "Status-Update",
                              StatusData(s, player[x].dbRef))
                        = IF p \in players \ {x} THEN 1 ELSE 0
      ]_vars

\* C12 witness: the status change of an authenticated active player has just
\* gone to the other active player and to nobody else.
C12_Witness ==
    /\ Len(out) = 1 /\ out[1].type = "Status-Update"
    /\ Cardinality(players) = 2
    /\ out[1].to \in players
    /\ \E x \in players : x # out[1].to /\ player[x].dbRef # ""
                          /\ out[1].text = StatusData("searching", player[x].dbRef)

\* C13: every user document a Register writes has a name of 4 to 20
\* characters once trimmed, and a Register that passes the gate with
\* well-formed fields and a name shorter than 4 or longer than 20 once trimmed
\* is rejected.
C13_NameLengthPostTrim ==
    [][\A r \in BagToSet(h) :
         /\ (r.pc = "RegUserSet" /\ CopiesIn(r, h') < CopiesIn(r, h)) =>
               /\ Len(Trim(users'[r.key].name)) >= MinNameLen
               /\ Len(Trim(users'[r.key].name)) <= MaxNameLen
         /\ ( /\ r.pc = "RegCodeGot" /\ CopiesIn(r, h') < CopiesIn(r, h)
              /\ LooseEq(r.code, r.data.access)
              /\ r.data.name.ty = "string" /\ r.data.email.ty = "string"
              /\ r.data.pass.ty = "string"
              /\ \/ Len(Trim(r.data.name.val)) < MinNameLen
                 \/ Len(Trim(r.data.name.val)) > MaxNameLen ) =>
               /\ Returns(r)
               /\ Len(out') = 1 /\ out'[1].type = "Error"
      ]_vars

\* C14: a message of a type handleMSG has no case for gets one 'Error' reply
\* marked terminal; the connection stays open and the registries, the Players
\* and the identity store are unchanged.
C14_UnknownTypeReply ==
    [][\A c \in 0..(MaxConnAuth - 1), type \in OtherTypes :
         RecvOther(c, type) =>
            /\ Len(out') = 1
            /\ out'[1].to = Owner(c)
            /\ out'[1].type = "Error"
            /\ out'[1].terminal
            /\ open' = open /\ player' = player
            /\ players' = players /\ stalePlayers' = stalePlayers
            /\ users' = users /\ usersSession' = usersSession
            /\ regAccessCode' = regAccessCode
      ]_vars

\* r is a password Login resumed with a document whose password differs.
WrongPassword(r) ==
    r.pc = "LoginUserGot" /\ r.found /\ r.doc.pass # Hash(r.data.pass.val)

\* r is a password Login resumed with no document at its key.
NoAccount(r) == r.pc = "LoginUserGot" /\ ~r.found

\* C15: a password Login answered for a wrong password and one answered for a
\* missing account have the same outcome but for the text: one message to the
\* sender, of type 'Error', terminal, and no change to the registries, the
\* Players, the sockets or the identity store. The outcome without the text is
\* the same function of the state before in both cases.
C15_WrongPasswordVsNoAccount ==
    [][\A r \in BagToSet(h) :
         (Returns(r) /\ (WrongPassword(r) \/ NoAccount(r))) =>
            /\ Len(out') = 1
            /\ [out'[1] EXCEPT !.text = ""] =
                  [to |-> r.plr, sock |-> player[r.plr].sock, type |-> "Error",
                   text |-> "", terminal |-> TRUE]
            /\ out'[1].text = IF WrongPassword(r)
                              THEN "Oh! It's wrong login password."
                              ELSE "Please register first to continue"
            /\ player' = player /\ players' = players
            /\ stalePlayers' = stalePlayers /\ open' = open /\ games' = games
            /\ users' = users /\ usersSession' = usersSession
            /\ regAccessCode' = regAccessCode
      ]_vars

\* C15 witness: a Login for a missing account has just been answered while a
\* Login with a wrong password for an existing account waits to be answered.
C15_Witness ==
    /\ Len(out) = 1 /\ out[1].type = "Error" /\ out[1].terminal
    /\ out[1].text = "Please register first to continue"
    /\ \E r \in BagToSet(h) : WrongPassword(r) /\ r.sock # out[1].sock

\* C16: the ids of the Players in the active set are pairwise distinct.
C16_DistinctActiveIds ==
    \A p, q \in players : p # q => player[p].id # player[q].id

\* C16 witness: a respawned Player is active under the id of the connection
\* it took over, whose own Player has id -1, next to another active Player.
C16_Witness ==
    /\ Cardinality(players) >= 2
    /\ \E s \in players :
          /\ player[s].sock # s /\ player[s].sock # NoSock
          /\ player[s].id = player[s].sock
          /\ player[s].id # s
          /\ player[player[s].sock].id = InvalidId

\* C17: a Register writes its user document only if the gate it read held an
\* access code and its payload carried a code equal to it.
C17_GateNeedsCode ==
    [][\A r \in BagToSet(h) :
         (r.pc = "RegUserSet" /\ CopiesIn(r, h') < CopiesIn(r, h)) =>
            /\ r.code.ty = "number"
            /\ r.data.access.ty \in {"string", "number"}
            /\ LooseEq(r.code, r.data.access)
      ]_vars

\* The error texts of the Register case.
RegisterErrors ==
    { "Access code is invalid!",
      "Invalid or Malformed request.",
      "Name is too short, it should be at least 4 characters long.",
      "Name is too long, it must not exceed 20 characters.",
      "Password should be alphanumeric, with at least 8 characters, including special characters.",
      "This email doesn't looks like a valid one, try again.",
      "User already exists! Please login to continue." }

\* C18: a Register that is rejected (it returns before its write) sends the
\* sender one terminal 'Error' and changes nothing else: no user document, no
\* rotation of the access code, no authentication, the registries as they
\* were; and no step of it before the rejection changes any of these.
C18_RejectedRegisterFrame ==
    [][\A r \in BagToSet(h) :
         /\ (Returns(r) /\ r.pc \in {"RegCodeGot", "RegUserGot"}) =>
               /\ Len(out') = 1
               /\ out'[1].to = r.plr
               /\ out'[1].type = "Error" /\ out'[1].terminal
               /\ out'[1].text \in RegisterErrors
               /\ users' = users /\ usersSession' = usersSession
               /\ regAccessCode' = regAccessCode /\ rotations' = rotations
               /\ player' = player /\ players' = players
               /\ stalePlayers' = stalePlayers /\ open' = open
               /\ games' = games
         /\ ( /\ r.pc \in {"RegCodeGet", "RegCodeGot", "RegUserGet", "RegUserGot"}
              /\ CopiesIn(r, h') < CopiesIn(r, h) /\ ~Returns(r) ) =>
               /\ out' = <<>>
               /\ users' = users /\ usersSession' = usersSession
               /\ regAccessCode' = regAccessCode /\ rotations' = rotations
               /\ player' = player /\ players' = players
               /\ stalePlayers' = stalePlayers /\ open' = open
      ]_vars

\* C18 witness: a Register for an address registered earlier in the run has
\* just been rejected as a duplicate; the sender is the Player that earlier
\* Register authenticated, and the rotated access code is in place.
C18_Witness ==
    /\ Len(out) = 1 /\ out[1].type = "Error" /\ out[1].terminal
    /\ out[1].text = "User already exists! Please login to continue."
    /\ users["k4"].exists /\ users["k4"].name = "Dave"
    /\ player[out[1].to].dbRef = "k4"
    /\ rotations = EmptyBag
    /\ regAccessCode = Num("123456")

\* p gave its socket away in a tryRespawn that returned true: it holds no
\* socket, its id is -1 and another Player holds the socket p was created on.
Donor(p) ==
    /\ player[p].sock = NoSock /\ player[p].id = InvalidId
    /\ \E s \in DOMAIN player : s # p /\ player[s].sock = p

\* C19: a donor of a respawn is never authenticated afterwards: no step binds
\* a persistentRef to it or sends it 'Authenticated'.
C19_DonorNeverAuthenticated ==
    [][\A p \in DOMAIN player :
         Donor(p) =>
            /\ player'[p].dbRef = player[p].dbRef
            /\ \A i \in 1..Len(out') :
                  ~(out'[i].to = p /\ Authenticated(out'[i]))
      ]_vars

\* C20: the store write of a Logout changes nothing when the sender's
\* persistentRef is empty, and otherwise nothing but users/<persistentRef>.
C20_LogoutWritesOwnDocument ==
    [][\A r \in BagToSet(h) :
         (r.pc = "LogoutSet" /\ CopiesIn(r, h') < CopiesIn(r, h) /\ ~Returns(r)) =>
            /\ usersSession' = usersSession
            /\ regAccessCode' = regAccessCode
            /\ \A k \in Keys : k # r.key => users'[k] = users[k]
      ]_vars
====
